---- MODULE Spec2Model ----
(***************************************************************************)
(* State-machine model of the marketplace-ui components BountyDetail (with *)
(* its nested AsyncQtyButton) and MintSelect.                              *)
(*                                                                         *)
(* React renders are pure functions of the component state and of the      *)
(* values the hooks return, so the rendered view, the validation result    *)
(* and the button label are operators over the state; event handlers and   *)
(* hook updates are the actions.                                           *)
(***************************************************************************)
EXTENDS Integers, Sequences, FiniteSets

(***************************************************************************)
(* Bounds of the model.                                                    *)
(***************************************************************************)
\* longest quantity text a keystroke event delivers
MaxLen == 2
\* largest owned amount the balance hooks report
MaxBalance == 2
\* steepest sampled pricing curve
MaxSlope == 2
\* longest text typed into the mint input
MaxMintLen == 2
\* number of bytes of a sampled public key
KeyBytes == 2

(***************************************************************************)
(* JavaScript values: a number, NaN or undefined.                          *)
(***************************************************************************)
Num(n) == [t |-> "number", v |-> n]
NaN == [t |-> "NaN", v |-> 0]
Undefined == [t |-> "undefined", v |-> 0]

\* !x on a number-or-undefined: undefined, NaN and 0 are falsy
Falsy(x) == x.t # "number" \/ x.v = 0

\* a < b: false as soon as one side is NaN (undefined converts to NaN)
Lt(a, b) == a.t = "number" /\ b.t = "number" /\ a.v < b.v

\* unary minus
Neg(x) == IF x.t = "number" THEN Num(-(x.v)) ELSE NaN

(***************************************************************************)
(* Texts are sequences of characters.  Number(text) is the conversion      *)
(* AsyncQtyButton applies to the quantity text: the empty text is 0, an    *)
(* optionally signed run of decimal digits is that integer, anything else  *)
(* is NaN.                                                                 *)
(***************************************************************************)
Digits == <<"0", "1", "2", "3", "4", "5", "6", "7", "8", "9">>

IsDigit(c) == \E i \in 1..10 : Digits[i] = c

DigitVal(c) == (CHOOSE i \in 1..10 : Digits[i] = c) - 1

AllDigits(s) == \A i \in 1..Len(s) : IsDigit(s[i])

RECURSIVE StrToNat(_)
StrToNat(s) ==
  IF s = <<>> THEN 0
  ELSE 10 * StrToNat(SubSeq(s, 1, Len(s) - 1)) + DigitVal(s[Len(s)])

Number(s) ==
  IF s = <<>> THEN Num(0)
  ELSE IF AllDigits(s) THEN Num(StrToNat(s))
  ELSE IF s[1] \in {"-", "+"} /\ Len(s) > 1 /\ AllDigits(Tail(s))
    THEN (IF s[1] = "-" THEN Num(-StrToNat(Tail(s))) ELSE Num(StrToNat(Tail(s))))
  ELSE NaN

\* characters a quantity text is made of in the model
QtyChars == {"-", "1", "x"}

RECURSIVE TextsOver(_, _)
TextsOver(chars, n) ==
  IF n = 0 THEN {<<>>}
  ELSE LET shorter == TextsOver(chars, n - 1)
       IN shorter \cup {Append(s, c) : s \in shorter, c \in chars}

QtyTexts == TextsOver(QtyChars, MaxLen)


(***************************************************************************)
(* Optional strings (display fields): a string or undefined.               *)
(***************************************************************************)
Str(s) == [t |-> "string", s |-> s]
UndefinedStr == [t |-> "undefined", s |-> ""]

\* !x on a string-or-undefined: undefined and "" are falsy
FalsyStr(x) == x.t # "string" \/ x.s = ""

\* a || b
OrStr(a, b) == IF FalsyStr(a) THEN b ELSE a

PropTexts == {Str(""), Str("prop")}
MetaTexts == {UndefinedStr, Str(""), Str("meta")}

(***************************************************************************)
(* Values the data hooks return.                                           *)
(***************************************************************************)
\* useTokenBondingFromMint: info is undefined or the bonding record
NoTokenBonding == [defined |-> FALSE, publicKey |-> "undefined"]
TokenBondings == {NoTokenBonding, [defined |-> TRUE, publicKey |-> "bondingKey"]}

\* useBondingPricing: pricing is undefined or a curve object
NoPricing == [defined |-> FALSE, slope |-> 0]
Pricings == {NoPricing} \cup {[defined |-> TRUE, slope |-> k] : k \in 1..MaxSlope}

\* pricing.buyWithBaseAmount(b) of the sampled curves: linear in b, so a
\* negative base amount yields a negative target amount; NaN stays NaN
buyWithBaseAmount(p, b) == IF b.t = "number" THEN Num(p.slope * b.v) ELSE NaN

\* useOwnedAmount: undefined or an amount
OwnedAmounts == {Undefined} \cup {Num(n) : n \in 0..MaxBalance}

VARIABLES
  \* BountyDetail props
  name, image, description, mintKey,
  \* hook results read by BountyDetail
  tokenBonding, bondingLoading, connected,
  targetName, targetImage, targetDescription, metadataLoading,
  pricing, tokenBondingSdk, baseBalance, targetBalance,
  \* component state
  isWithdraw, qty,
  \* what the last handled event invoked: the action prop and the SDK
  actionCalls, sdkCalls,
  \* MintSelect
  isOpen, value, handled, emitted

propVars == <<name, image, description, mintKey>>
hookVars == <<tokenBonding, bondingLoading, connected, targetName, targetImage,
              targetDescription, metadataLoading, pricing, tokenBondingSdk,
              baseBalance, targetBalance>>
bountyVars == <<propVars, hookVars, isWithdraw, qty, actionCalls, sdkCalls>>
mintVars == <<isOpen, value, handled, emitted>>
vars == <<bountyVars, mintVars>>

(***************************************************************************)
(* BountyDetail: derived values and the rendered view.                     *)
(***************************************************************************)
\* variant for C6: the loading flag is not consulted
bountyClosed_IgnoresLoading == ~tokenBonding.defined

bountyClosed == ~tokenBonding.defined /\ ~bondingLoading

\* variant for C7: one missing display field is enough
dataMissing_AnyFieldMissing ==
  \/ FalsyStr(OrStr(targetName, name))
  \/ FalsyStr(OrStr(targetImage, image))
  \/ FalsyStr(OrStr(targetDescription, description))

dataMissing ==
  /\ FalsyStr(OrStr(targetName, name))
  /\ FalsyStr(OrStr(targetImage, image))
  /\ FalsyStr(OrStr(targetDescription, description))

\* the elements BountyDetail returns
View ==
  IF ~metadataLoading /\ dataMissing THEN {"NotFound"}
  ELSE IF dataMissing THEN {"Spinner"}
  ELSE {"Heading", "AuthorityAndTokenInfo", "Description"}
       \cup (IF bountyClosed
             THEN {"ClosedAlert"} \cup (IF mintKey THEN {"BurnButton"} ELSE {})
             ELSE {"Contributions", "AsyncQtyButton", "ToggleButton", "TopHolders"})

\* the contribute/withdraw controls are mounted
ControlsRendered == "AsyncQtyButton" \in View

(***************************************************************************)
(* The validate and action props BountyDetail hands to AsyncQtyButton.     *)
(***************************************************************************)
\* variant for C2: the contribute branch does not look at the wallet
validate_ContributeIgnoresWallet(quantity) ==
  IF isWithdraw
  THEN IF pricing.defined
       THEN LET actualQuantity == Neg(buyWithBaseAmount(pricing, Neg(quantity)))
            IN IF Falsy(targetBalance) \/ Lt(targetBalance, actualQuantity)
               THEN "Insufficient funds"
               ELSE IF ~connected THEN "Connect Wallet" ELSE "null"
       ELSE "null"
  ELSE IF Falsy(baseBalance) \/ Lt(baseBalance, quantity)
       THEN "Insufficient funds"
       ELSE "null"

\* variant for C4: a balance equal to the request is refused (<= for <)
validate_RefusesExactBalance(quantity) ==
  IF isWithdraw
  THEN IF pricing.defined
       THEN LET actualQuantity == Neg(buyWithBaseAmount(pricing, Neg(quantity)))
            IN IF Falsy(targetBalance) \/ Lt(targetBalance, actualQuantity)
                  \/ targetBalance = actualQuantity
               THEN "Insufficient funds"
               ELSE IF ~connected THEN "Connect Wallet" ELSE "null"
       ELSE "null"
  ELSE IF Falsy(baseBalance) \/ Lt(baseBalance, quantity) \/ baseBalance = quantity
       THEN "Insufficient funds"
       ELSE IF ~connected THEN "Connect Wallet" ELSE "null"

\* variant for C10: the withdraw branch checks the wallet outside if (pricing)
validate_WalletCheckedWithoutPricing(quantity) ==
  IF isWithdraw
  THEN IF pricing.defined
          /\ (Falsy(targetBalance)
              \/ Lt(targetBalance, Neg(buyWithBaseAmount(pricing, Neg(quantity)))))
       THEN "Insufficient funds"
       ELSE IF ~connected THEN "Connect Wallet" ELSE "null"
  ELSE IF Falsy(baseBalance) \/ Lt(baseBalance, quantity)
       THEN "Insufficient funds"
       ELSE IF ~connected THEN "Connect Wallet" ELSE "null"

validate(quantity) ==
  IF isWithdraw
  THEN IF pricing.defined
       THEN LET actualQuantity == Neg(buyWithBaseAmount(pricing, Neg(quantity)))
            IN IF Falsy(targetBalance) \/ Lt(targetBalance, actualQuantity)
               THEN "Insufficient funds"
               ELSE IF ~connected THEN "Connect Wallet" ELSE "null"
       ELSE "null"
  ELSE IF Falsy(baseBalance) \/ Lt(baseBalance, quantity)
       THEN "Insufficient funds"
       ELSE IF ~connected THEN "Connect Wallet" ELSE "null"

\* the argument of tokenBondingSdk.buy / sell
SdkCall(op, field, amount) ==
  [op |-> op, amountField |-> field, amount |-> amount,
   tokenBonding |-> tokenBonding.publicKey, slippage |-> 0]

\* variant for C5: a plain else where the code has else if (!isWithdraw)
action_BuysWhenNoPricing(quantity) ==
  IF isWithdraw /\ pricing.defined
  THEN IF tokenBondingSdk
       THEN <<[op |-> "sell", amountField |-> "targetAmount",
               amount |-> Neg(buyWithBaseAmount(pricing, Neg(quantity))),
               tokenBonding |-> tokenBonding.publicKey, slippage |-> 0]>>
       ELSE <<>>
  ELSE IF tokenBondingSdk
       THEN <<[op |-> "buy", amountField |-> "baseAmount", amount |-> quantity,
               tokenBonding |-> tokenBonding.publicKey, slippage |-> 0]>>
       ELSE <<>>

\* the SDK calls one run of the action prop issues, in order
action(quantity) ==
  IF isWithdraw /\ pricing.defined
  THEN IF tokenBondingSdk
       THEN <<SdkCall("sell", "targetAmount",
                      Neg(buyWithBaseAmount(pricing, Neg(quantity))))>>
       ELSE <<>>
  ELSE IF ~isWithdraw
       THEN IF tokenBondingSdk
            THEN <<SdkCall("buy", "baseAmount", quantity)>>
            ELSE <<>>
       ELSE <<>>

\* children of the action button, and of the mode link beside it
children == IF isWithdraw THEN "Withdraw Funds" ELSE "Contribute Funds"
toggleLabel == IF isWithdraw THEN "Contribute Funds" ELSE "Withdraw Funds"

(***************************************************************************)
(* AsyncQtyButton.                                                         *)
(***************************************************************************)
validation == validate(Number(qty))

isDisabled == validation # "null"

\* what the action button shows
buttonText == IF validation # "null" THEN validation ELSE children


\* local state of AsyncQtyButton after a render in which BountyDetail's
\* hooks or props changed: useState("") starts over when the controls were
\* not part of the view
QtyAfterRender == IF ControlsRendered /\ ControlsRendered' THEN qty ELSE <<>>

\* a hook update or a keystroke invokes neither the action prop nor the SDK
NothingInvoked == actionCalls' = <<>> /\ sdkCalls' = <<>>

\* onChange of the quantity input: setQty(e.target.value)
setQty ==
  /\ ControlsRendered
  /\ \E text \in QtyTexts : qty' = text
  /\ NothingInvoked
  /\ UNCHANGED <<propVars, hookVars, isWithdraw, mintVars>>

\* variant for C9: the toggle also clears the quantity text
setIsWithdraw_ClearsQty ==
  /\ ControlsRendered
  /\ isWithdraw' = ~isWithdraw
  /\ qty' = <<>>
  /\ actionCalls' = <<>> /\ sdkCalls' = <<>>
  /\ UNCHANGED <<propVars, hookVars, mintVars>>

\* onClick of the mode link: setIsWithdraw(!isWithdraw)
setIsWithdraw ==
  /\ ControlsRendered
  /\ isWithdraw' = ~isWithdraw
  /\ NothingInvoked
  /\ UNCHANGED <<propVars, hookVars, qty, mintVars>>

\* AsyncButton: a click on the enabled button runs its action prop once,
\* which is () => action({ quantity: Number(qty) })
AsyncButtonClick ==
  /\ ControlsRendered
  /\ ~isDisabled
  /\ actionCalls' = <<Number(qty)>>
  /\ sdkCalls' = action(Number(qty))
  /\ UNCHANGED <<propVars, hookVars, isWithdraw, qty, mintVars>>

(***************************************************************************)
(* Hook updates: each hook may deliver a new value at any time.            *)
(***************************************************************************)
useTokenBondingFromMint ==
  /\ \E info \in TokenBondings, loading \in BOOLEAN :
       /\ tokenBonding' = info
       /\ bondingLoading' = loading
  /\ UNCHANGED <<propVars, connected, targetName, targetImage, targetDescription,
                 metadataLoading, pricing, tokenBondingSdk, baseBalance,
                 targetBalance, isWithdraw, mintVars>>
  /\ qty' = QtyAfterRender
  /\ NothingInvoked

useWallet ==
  /\ connected' \in BOOLEAN
  /\ NothingInvoked
  /\ UNCHANGED <<propVars, tokenBonding, bondingLoading, targetName, targetImage,
                 targetDescription, metadataLoading, pricing, tokenBondingSdk,
                 baseBalance, targetBalance, isWithdraw, qty, mintVars>>

useBondingPricing ==
  /\ pricing' \in Pricings
  /\ NothingInvoked
  /\ UNCHANGED <<propVars, tokenBonding, bondingLoading, connected, targetName,
                 targetImage, targetDescription, metadataLoading, tokenBondingSdk,
                 baseBalance, targetBalance, isWithdraw, qty, mintVars>>

useStrataSdks ==
  /\ tokenBondingSdk' \in BOOLEAN
  /\ NothingInvoked
  /\ UNCHANGED <<propVars, tokenBonding, bondingLoading, connected, targetName,
                 targetImage, targetDescription, metadataLoading, pricing,
                 baseBalance, targetBalance, isWithdraw, qty, mintVars>>

useOwnedAmountBase ==
  /\ baseBalance' \in OwnedAmounts
  /\ NothingInvoked
  /\ UNCHANGED <<propVars, tokenBonding, bondingLoading, connected, targetName,
                 targetImage, targetDescription, metadataLoading, pricing,
                 tokenBondingSdk, targetBalance, isWithdraw, qty, mintVars>>

useOwnedAmountTarget ==
  /\ targetBalance' \in OwnedAmounts
  /\ NothingInvoked
  /\ UNCHANGED <<propVars, tokenBonding, bondingLoading, connected, targetName,
                 targetImage, targetDescription, metadataLoading, pricing,
                 tokenBondingSdk, baseBalance, isWithdraw, qty, mintVars>>

\* useTokenMetadata(tokenBonding?.targetMint): image, metadata and data
useTokenMetadataTarget ==
  /\ targetName' \in MetaTexts
  /\ targetImage' \in MetaTexts
  /\ targetDescription' \in MetaTexts
  /\ UNCHANGED <<propVars, tokenBonding, bondingLoading, connected, metadataLoading,
                 pricing, tokenBondingSdk, baseBalance, targetBalance, isWithdraw,
                 mintVars>>
  /\ qty' = QtyAfterRender
  /\ NothingInvoked

\* useTokenMetadata(tokenBonding?.baseMint): loading
useTokenMetadataBase ==
  /\ metadataLoading' \in BOOLEAN
  /\ UNCHANGED <<propVars, tokenBonding, bondingLoading, connected, targetName,
                 targetImage, targetDescription, pricing, tokenBondingSdk,
                 baseBalance, targetBalance, isWithdraw, mintVars>>
  /\ qty' = QtyAfterRender
  /\ NothingInvoked


(***************************************************************************)
(* MintSelect.                                                             *)
(***************************************************************************)
\* PublicKey.toBase58(): one "1" per leading zero byte, then the base-58
\* digits of the big-endian value of the bytes
Base58Alphabet ==
  <<"1", "2", "3", "4", "5", "6", "7", "8", "9",
    "A", "B", "C", "D", "E", "F", "G", "H", "J", "K", "L", "M", "N", "P", "Q",
    "R", "S", "T", "U", "V", "W", "X", "Y", "Z",
    "a", "b", "c", "d", "e", "f", "g", "h", "i", "j", "k", "m", "n", "o", "p",
    "q", "r", "s", "t", "u", "v", "w", "x", "y", "z">>

RECURSIVE BytesToNat(_)
BytesToNat(bytes) ==
  IF bytes = <<>> THEN 0
  ELSE 256 * BytesToNat(SubSeq(bytes, 1, Len(bytes) - 1)) + bytes[Len(bytes)]

RECURSIVE LeadingZeros(_)
LeadingZeros(bytes) ==
  IF bytes = <<>> \/ bytes[1] # 0 THEN 0 ELSE 1 + LeadingZeros(Tail(bytes))

RECURSIVE Base58Digits(_)
Base58Digits(n) ==
  IF n = 0 THEN <<>>
  ELSE Append(Base58Digits(n \div 58), Base58Alphabet[(n % 58) + 1])

toBase58(bytes) ==
  [i \in 1..LeadingZeros(bytes) |-> "1"] \o Base58Digits(BytesToNat(bytes))

\* sampled byte values and public keys
KeyByteValues == {0, 1, 255}

RECURSIVE KeysOfLength(_)
KeysOfLength(n) ==
  IF n = 0 THEN {<<>>}
  ELSE {Append(k, b) : k \in KeysOfLength(n - 1), b \in KeyByteValues}

PublicKeys == KeysOfLength(KeyBytes)

\* what TokenSearch passes to onSelect: t.account may be absent, and so may
\* t.account.mint
NoKey == <<>>
SearchResults ==
  {[account |-> FALSE, hasMint |-> FALSE, mint |-> NoKey],
   [account |-> TRUE, hasMint |-> FALSE, mint |-> NoKey]}
  \cup {[account |-> TRUE, hasMint |-> TRUE, mint |-> k] : k \in PublicKeys}

\* const mint = t.account?.mint; if (mint) ...
HasMint(t) == t.account /\ t.hasMint

MintChars == {"1", "A", "z"}
MintTexts == TextsOver(MintChars, MaxMintLen)

KeyNames == {"Escape", "Enter"}

\* the event MintSelect handled last, and the callbacks it invoked, in order
Handled(event, t) == [event |-> event, t |-> t]
NoResult == [account |-> FALSE, hasMint |-> FALSE, mint |-> NoKey]
Emit(fn, arg) == [fn |-> fn, arg |-> arg]

\* the two alternatives of the returned fragment
MintView ==
  (IF ~isOpen THEN {"InputGroup"} ELSE {}) \cup (IF isOpen THEN {"TokenSearch"} ELSE {})

\* <Input onChange={(e) => onChange(e.target.value)} />; the parent renders
\* the component again with the value it was given
inputOnChange ==
  /\ "InputGroup" \in MintView
  /\ \E text \in MintTexts :
       /\ value' = text
       /\ emitted' = <<Emit("onChange", text)>>
       /\ handled' = Handled("change", NoResult)
  /\ UNCHANGED <<isOpen, bountyVars>>

\* the Wallet button: onClick={() => (isOpen ? onClose() : onOpen())}
walletOnClick ==
  /\ "InputGroup" \in MintView
  /\ isOpen' = (IF isOpen THEN FALSE ELSE TRUE)
  /\ emitted' = <<Emit(IF isOpen THEN "onClose" ELSE "onOpen", <<>>)>>
  /\ handled' = Handled("click", NoResult)
  /\ UNCHANGED <<value, bountyVars>>

\* the document keydown listener
escFunction ==
  /\ \E key \in KeyNames :
       /\ isOpen' = (IF key = "Escape" THEN FALSE ELSE isOpen)
       /\ emitted' = (IF key = "Escape" THEN <<Emit("onClose", <<>>)>> ELSE <<>>)
       /\ handled' = Handled("keydown", NoResult)
  /\ UNCHANGED <<value, bountyVars>>

\* variant for C8: the overlay is closed whether or not the result has a mint
onSelect_ClosesWithoutMint ==
  /\ "TokenSearch" \in MintView
  /\ \E t \in SearchResults :
       /\ handled' = Handled("select", t)
       /\ isOpen' = FALSE
       /\ IF HasMint(t)
          THEN /\ value' = toBase58(t.mint)
               /\ emitted' = <<Emit("onChange", toBase58(t.mint)), Emit("onClose", <<>>)>>
          ELSE /\ emitted' = <<Emit("onClose", <<>>)>>
               /\ UNCHANGED value
  /\ UNCHANGED bountyVars

\* TokenSearch onSelect
onSelect ==
  /\ "TokenSearch" \in MintView
  /\ \E t \in SearchResults :
       /\ handled' = Handled("select", t)
       /\ IF HasMint(t)
          THEN /\ value' = toBase58(t.mint)
               /\ emitted' = <<Emit("onChange", toBase58(t.mint)), Emit("onClose", <<>>)>>
               /\ isOpen' = FALSE
          ELSE /\ emitted' = <<>>
               /\ UNCHANGED <<value, isOpen>>
  /\ UNCHANGED bountyVars

(***************************************************************************)
(* Specifications.                                                         *)
(***************************************************************************)
\* hooks before any data arrived, component state as constructed
InitHooksAndState ==
  /\ tokenBonding = NoTokenBonding
  /\ bondingLoading = TRUE
  /\ connected = FALSE
  /\ targetName = UndefinedStr
  /\ targetImage = UndefinedStr
  /\ targetDescription = UndefinedStr
  /\ metadataLoading = TRUE
  /\ pricing = NoPricing
  /\ tokenBondingSdk = FALSE
  /\ baseBalance = Undefined
  /\ targetBalance = Undefined
  /\ isWithdraw = FALSE
  /\ qty = <<>>
  /\ actionCalls = <<>>
  /\ sdkCalls = <<>>
  /\ isOpen = FALSE
  /\ value = <<>>
  /\ handled = Handled("none", NoResult)
  /\ emitted = <<>>

\* a bounty page that passes all of its display props
Init ==
  /\ name = Str("prop")
  /\ image = Str("prop")
  /\ description = Str("prop")
  /\ mintKey = TRUE
  /\ InitHooksAndState

\* the contribute/withdraw flow
Next ==
  \/ setQty
  \/ setIsWithdraw
  \/ AsyncButtonClick
  \/ useTokenBondingFromMint
  \/ useWallet
  \/ useBondingPricing
  \/ useStrataSdks
  \/ useOwnedAmountBase
  \/ useOwnedAmountTarget

Spec == Init /\ [][Next]_vars

\* any display props
InitView ==
  /\ name \in PropTexts
  /\ image \in PropTexts
  /\ description \in PropTexts
  /\ mintKey \in BOOLEAN
  /\ InitHooksAndState

\* what BountyDetail renders as the record and the metadata load
NextView ==
  \/ useTokenBondingFromMint
  \/ useTokenMetadataTarget
  \/ useTokenMetadataBase

SpecView == InitView /\ [][NextView]_vars

\* the mint selector
NextMint ==
  \/ inputOnChange
  \/ walletOnClick
  \/ escFunction
  \/ onSelect

SpecMint == Init /\ [][NextMint]_vars


(***************************************************************************)
(* Properties.                                                             *)
(***************************************************************************)
\* a >= b on JavaScript values: false as soon as one side is not a number
Ge(a, b) == a.t = "number" /\ b.t = "number" /\ a.v >= b.v

\* the last handled event was a click that ran the action prop
Activated == actionCalls # <<>>

\* -buyWithBaseAmount(-quantity) on the current pricing object
ActualQuantity(q) == Neg(buyWithBaseAmount(pricing, Neg(q)))

\* the bonding record is loaded, and so is the pricing object when withdrawing
DataLoaded == tokenBonding # NoTokenBonding /\ (isWithdraw => pricing # NoPricing)

\* C1: every quantity text whose numeric conversion is NaN is rejected by the
\* validation, in both modes and whatever the balances, the pricing object
\* and the wallet are, and no SDK call carries a NaN amount.  Stated for the
\* states in which the data the validation compares against is loaded.
C1_NaNRejected ==
  DataLoaded =>
    /\ (ControlsRendered /\ Number(qty) = NaN) => isDisabled
    /\ \A i \in DOMAIN sdkCalls : sdkCalls[i].amount # NaN

\* C2 as stated: with the wallet disconnected the validation blocks every
\* quantity, in both branches, whether or not the pricing object is there.
C2_DisconnectedAlwaysBlocks ==
  (ControlsRendered /\ ~connected /\ tokenBonding # NoTokenBonding) =>
    \A text \in QtyTexts : validate(Number(text)) # "null"

\* C2 amended: with the wallet disconnected the validation blocks every
\* quantity in the contribute branch and in the withdraw branch with a pricing
\* object; in the withdraw branch without a pricing object it blocks none;
\* and no SDK call is dispatched while the wallet is disconnected.
C2_DisconnectedBlocksOrIdle ==
  (ControlsRendered /\ ~connected) =>
    /\ \A text \in QtyTexts :
         (validate(Number(text)) = "null") <=> (isWithdraw /\ pricing = NoPricing)
    /\ sdkCalls = <<>>

C2_Witness ==
  /\ ControlsRendered
  /\ ~connected
  /\ isWithdraw
  /\ pricing # NoPricing
  /\ targetBalance = Num(MaxBalance)
  /\ validation = "Connect Wallet"

\* C3: the action runs only when the validation reports no blocking reason,
\* and every dispatched buy (sell) has base (target) balance >= its amount in
\* the state in which the click happened.
C3_DispatchCovered ==
  /\ Activated => validation = "null"
  /\ DataLoaded =>
       \A i \in DOMAIN sdkCalls :
         /\ sdkCalls[i].op = "buy" => Ge(baseBalance, sdkCalls[i].amount)
         /\ sdkCalls[i].op = "sell" => Ge(targetBalance, sdkCalls[i].amount)

\* C4 as stated, for numeric quantities and with the pricing object there:
\* with a connected wallet the validation passes exactly when the balance is
\* at least the requested amount, balance 0 against amount 0 included.
C4_PassIffBalanceCovers ==
  (ControlsRendered /\ connected /\ DataLoaded) =>
    \A text \in QtyTexts :
      LET q == Number(text)
      IN q # NaN =>
           ((validate(q) = "null") <=>
              IF isWithdraw THEN Ge(targetBalance, ActualQuantity(q))
              ELSE Ge(baseBalance, q))

\* the balance is a non-zero amount that is not below the requested one (a
\* NaN request is below nothing)
NonZeroAndNotBelow(balance, amount) ==
  /\ balance.t = "number"
  /\ balance.v # 0
  /\ amount.t = "number" => balance.v >= amount.v

\* C4 amended: with a connected wallet the validation passes exactly when the
\* balance is defined, non-zero and not less than the requested amount (base
\* balance against quantity when contributing, target balance against
\* actualQuantity when withdrawing with a pricing object); a zero balance
\* blocks even a zero request, and withdrawing without a pricing object
\* always passes.
C4_PassIffNonZeroBalanceCovers ==
  (ControlsRendered /\ connected) =>
    \A text \in QtyTexts :
      LET q == Number(text)
      IN (validate(q) = "null") <=>
           IF ~isWithdraw THEN NonZeroAndNotBelow(baseBalance, q)
           ELSE IF pricing # NoPricing
                THEN NonZeroAndNotBelow(targetBalance, ActualQuantity(q))
                ELSE TRUE

C4_Witness ==
  /\ ControlsRendered
  /\ connected
  /\ ~isWithdraw
  /\ baseBalance = Num(0)
  /\ Number(qty) = Num(0)
  /\ validation = "Insufficient funds"

\* C5 as stated: every activation produces exactly one SDK call, a buy of the
\* quantity when contributing and a sell of -buyWithBaseAmount(-quantity) when
\* withdrawing, with slippage 0 and the bonding record's key.  Stated for the
\* states in which the bonding record and the SDK handle are loaded.
C5_ExactlyOneCall ==
  (Activated /\ tokenBonding # NoTokenBonding /\ tokenBondingSdk) =>
    /\ Len(sdkCalls) = 1
    /\ sdkCalls[1].slippage = 0
    /\ sdkCalls[1].tokenBonding = tokenBonding.publicKey
    /\ ~isWithdraw => /\ sdkCalls[1].op = "buy"
                      /\ sdkCalls[1].amount = Number(qty)
    /\ isWithdraw => /\ sdkCalls[1].op = "sell"
                     /\ sdkCalls[1].amount = ActualQuantity(Number(qty))

\* C5 amended: an activation runs the action prop once with Number(qty); with
\* the SDK handle available that issues exactly one call, a buy of the
\* quantity as baseAmount when contributing (never a sell) and a sell of
\* -buyWithBaseAmount(-quantity) as targetAmount when withdrawing with a
\* pricing object (never a buy), both with slippage 0 and the bonding
\* record's key; withdrawing without a pricing object, or without the SDK
\* handle, it issues no call.
C5_AtMostOneCallByMode ==
  Activated =>
    /\ actionCalls = <<Number(qty)>>
    /\ Len(sdkCalls) = (IF tokenBondingSdk /\ (isWithdraw => pricing # NoPricing)
                        THEN 1 ELSE 0)
    /\ \A i \in DOMAIN sdkCalls :
         /\ sdkCalls[i].slippage = 0
         /\ sdkCalls[i].tokenBonding = tokenBonding.publicKey
         /\ ~isWithdraw => /\ sdkCalls[i].op = "buy"
                           /\ sdkCalls[i].amountField = "baseAmount"
                           /\ sdkCalls[i].amount = Number(qty)
         /\ isWithdraw => /\ sdkCalls[i].op = "sell"
                          /\ sdkCalls[i].amountField = "targetAmount"
                          /\ sdkCalls[i].amount = ActualQuantity(Number(qty))

C5_Witness ==
  /\ Activated
  /\ isWithdraw
  /\ Len(sdkCalls) = 1
  /\ sdkCalls[1].op = "sell"
  /\ sdkCalls[1].amount = Num(MaxSlope)

\* C6: bountyClosed is true exactly when there is no bonding record and the
\* lookup is not loading (so never while loading); the closed notice with its
\* burn button and the contribute/withdraw controls sit on opposite values of
\* the flag and are never rendered together.
C6_ClosedIffNoRecordAndLoaded ==
  /\ bountyClosed <=> (tokenBonding = NoTokenBonding /\ bondingLoading = FALSE)
  /\ bondingLoading => ~bountyClosed
  /\ ~("ClosedAlert" \in View /\ "AsyncQtyButton" \in View)
  /\ "ClosedAlert" \in View => bountyClosed
  /\ "BurnButton" \in View => bountyClosed /\ mintKey
  /\ "AsyncQtyButton" \in View => ~bountyClosed
  /\ View \notin {{"Spinner"}, {"NotFound"}} =>
       ("ClosedAlert" \in View \/ "AsyncQtyButton" \in View)

C6_Witness ==
  /\ tokenBonding = NoTokenBonding
  /\ ~bondingLoading
  /\ "ClosedAlert" \in View
  /\ "BurnButton" \in View
  /\ "AsyncQtyButton" \notin View

\* C7 as stated: while the bonding lookup is loading only the spinner or the
\* not-found text is rendered.
C7_LoadingShowsOnlySpinner ==
  bondingLoading => View \in {{"Spinner"}, {"NotFound"}}

\* none of name, image and description is available, from metadata or props
NoDisplayField ==
  /\ targetName \in {UndefinedStr, Str("")} /\ name = Str("")
  /\ targetImage \in {UndefinedStr, Str("")} /\ image = Str("")
  /\ targetDescription \in {UndefinedStr, Str("")} /\ description = Str("")

\* C7 amended: while the bonding lookup is loading the closed view is never
\* rendered; the contribute/withdraw view is rendered whenever one of name,
\* image and description is available, and the spinner or the not-found text
\* only when all three are missing.
C7_LoadingShowsOpenView ==
  bondingLoading =>
    /\ "ClosedAlert" \notin View
    /\ IF NoDisplayField
       THEN View = (IF metadataLoading THEN {"Spinner"} ELSE {"NotFound"})
       ELSE "AsyncQtyButton" \in View /\ "ToggleButton" \in View

C7_Witness ==
  /\ bondingLoading
  /\ tokenBonding = NoTokenBonding
  /\ name = Str("")
  /\ targetName = Str("meta")
  /\ "AsyncQtyButton" \in View

\* the state-level part of C8
C8_SelectOutcome ==
  /\ Cardinality(MintView) = 1
  /\ isOpen <=> MintView = {"TokenSearch"}
  /\ handled.event = "select" =>
       IF handled.t.account /\ handled.t.hasMint
       THEN /\ emitted = <<Emit("onChange", toBase58(handled.t.mint)),
                           Emit("onClose", <<>>)>>
            /\ value = toBase58(handled.t.mint)
            /\ ~isOpen
       ELSE /\ emitted = <<>>
            /\ isOpen

\* C8: with the overlay open, selecting a result without a mint invokes no
\* callback and leaves the overlay open and the state unchanged; selecting a
\* result with a mint invokes onChange once with the mint's base-58 address
\* and then onClose; exactly one of the input view and the overlay is shown.
C8_SelectMint ==
  /\ []C8_SelectOutcome
  /\ [][(handled'.event = "select" /\ ~handled'.t.hasMint)
          => (isOpen /\ UNCHANGED <<isOpen, value>>)]_vars

C8_Witness ==
  /\ handled.event = "select"
  /\ handled.t.hasMint
  /\ handled.t.mint[1] = 0
  /\ Len(emitted) = 2
  /\ emitted[1].fn = "onChange"
  /\ emitted[1].arg = toBase58(handled.t.mint)
  /\ emitted[2].fn = "onClose"
  /\ value = emitted[1].arg
  /\ ~isOpen

\* C9: a step that toggles the mode negates the flag, swaps the button label
\* between contribute and withdraw (the new label is what the mode link
\* showed), leaves the quantity text and every validation input unchanged and
\* invokes nothing; so a second toggle restores mode, label and validation.
C9_ToggleFlipsModeOnly ==
  [][isWithdraw' # isWithdraw =>
       /\ isWithdraw' = ~isWithdraw
       /\ qty' = qty
       /\ children' # children
       /\ children' = toggleLabel
       /\ toggleLabel' = children
       /\ children' = (IF isWithdraw THEN "Contribute Funds" ELSE "Withdraw Funds")
       /\ UNCHANGED <<hookVars, propVars>>
       /\ sdkCalls' = <<>>
       /\ actionCalls' = <<>>]_vars

C9_Witness ==
  /\ isWithdraw
  /\ qty = <<"1">>
  /\ children = "Withdraw Funds"
  /\ validation = "null"
  /\ pricing # NoPricing

\* C10: in withdraw mode without a pricing object the validation blocks no
\* quantity, whatever the balances and the wallet are; the button is enabled
\* and shows the withdraw label; an activation issues no SDK call.
C10_NoPricingNoBlockNoCall ==
  (ControlsRendered /\ isWithdraw /\ pricing = NoPricing) =>
    /\ \A text \in QtyTexts : validate(Number(text)) = "null"
    /\ ~isDisabled
    /\ buttonText = "Withdraw Funds"
    /\ sdkCalls = <<>>

C10_Witness ==
  /\ Activated
  /\ isWithdraw
  /\ pricing = NoPricing
  /\ ~connected
  /\ tokenBondingSdk
  /\ sdkCalls = <<>>

====
